---------------------------- MODULE Spec2Model ----------------------------
(***************************************************************************)
(* A model of the in-memory expiring cache of Cache.go: the sync.Map       *)
(* storage, the callers' Get / Set / Delete, the clean-up ticker, the      *)
(* constructor with its options and the background goroutine cleanUpCache. *)
(*                                                                         *)
(* Every sync.Map operation (Load, Store, Delete, one visit of Range) and  *)
(* every time.Now() reading is one atomic step; whatever the code does     *)
(* between two of them is local to the goroutine and is folded into a      *)
(* neighbouring step.                                                      *)
(*                                                                         *)
(* Instants are integers (nanoseconds, scaled down).  A time.Time holds an *)
(* instant exactly; Time.UnixNano() converts it to an int64 and wraps when *)
(* the instant does not fit.  The int64 is scaled down to IntBits bits.    *)
(***************************************************************************)
EXTENDS Integers, Sequences, FiniteSets

\* ------------------------------------------------------------------ bounds

\* The clock readings of a run are 0 .. MaxTime.
MaxTime == 2

\* The Set and Delete calls of a run, all callers together (Get calls are
\* not counted).
MaxWrites == 2

\* The width of the scaled-down int64 (time.Duration, Time.UnixNano()).
IntBits == 4

\* The most options a call of NewInMemoryCache is given.
MaxOptions == 2

\* The goroutines that call the cache, the keys and the values they use.
Procs == {"p1", "p2"}

\* The caller that runs beside the sweeper, and the value it stores.
Solo == {"p1"}
SoloValues == {1}
Keys == {"a", "b"}
Values == {1, 2}

\* ------------------------------------------------------- values of the code

\* The nil interface value Get returns on a miss.
Nil == 0

\* 2^(IntBits-1): int64 values are -Half .. Half-1.
Half == 2 ^ (IntBits - 1)

\* The largest time.Duration (math.MaxInt64 nanoseconds).
MaxDuration == Half - 1

\* The smallest time.Duration (math.MinInt64 nanoseconds).
MinDuration == 0 - Half

\* The expiredInterval arguments the callers pass: negative, zero, one unit,
\* and the largest duration ("never expires").
TTLs == {0 - 1, 0, 1, MaxDuration}

\* Time.UnixNano(): the instant as an int64, wrapping around when it does
\* not fit (Go's signed arithmetic wraps).
UnixNano(t) == ((t + Half) % (2 * Half)) - Half

\* Whether an instant survives the conversion to int64.
Fits(t) == UnixNano(t) = t

\* The absence of a cacheItem: what sync.Map.Load reports with found = false.
NoEntry == [found |-> FALSE, value |-> Nil, validThrough |-> 0]

\* cacheItem{value, validThrough}
cacheItem(v, vt) == [found |-> TRUE, value |-> v, validThrough |-> vt]

\* time.Now().UnixNano() > item.validThrough.UnixNano()
Expired(t, item) == UnixNano(t) > UnixNano(item.validThrough)

\* What Get returns.
Miss == [value |-> Nil, found |-> FALSE]
Hit(v) == [value |-> v, found |-> TRUE]

\* ------------------------------------------------------------------- state

VARIABLES
    storage,        \* inMemoryCache.storage: key -> cacheItem or NoEntry
    now,            \* the wall clock time.Now() reads
    tickPending,    \* a tick waits in cleanUpTicker.C (a channel of capacity 1)
    ctxDone,        \* ctx.Done() is closed
    spc,            \* where cleanUpCache is: Running (at the select),
                    \* Scanning (in Range), Purging (in the delete loop), Stopped
    scanned,        \* the keys Range has passed
    itemsToDelete,  \* the slice getCacheItemsToDelete builds
    callers,        \* each caller's position and locals
    writes,         \* the number of Set and Delete calls made so far
    ret,            \* what the step just taken returned to its caller (NoRet
                    \* when it was not the return of a Get)
    hist,           \* history: the last Store or Delete a caller made on a key
    snap,           \* history: the storage when the latest sweep began, as
                    \* long as only the sweeper has taken steps since
    build,          \* NewInMemoryCache: where the constructor is, the options
                    \* it has still to apply and, as history, those it was given
    cleanUpTicker,  \* inMemoryCache.cleanUpTicker: its period, the instant of
                    \* its next tick and, as history, the period that produced
                    \* the tick waiting in its channel
    gap             \* history: for each caller inside Get, whether its key was
                    \* without a live item at some instant of the call so far

storeVars == <<storage, hist>>
callerVars == <<callers, writes>>
envVars == <<now, tickPending, ctxDone>>
cfgVars == <<build, cleanUpTicker>>
vars == <<storage, now, tickPending, ctxDone, spc, scanned, itemsToDelete,
          callers, writes, ret, hist, snap, build, cleanUpTicker, gap>>

\* The values of hist: no call yet, a Set (with its arguments, the deadline it
\* stored and whether it replaced an item), a Delete.
NoWrite == [op |-> "None", value |-> Nil, ttl |-> 0, validThrough |-> 0,
            over |-> FALSE]
SetWrite(v, ttl, vt, over) ==
    [op |-> "Set", value |-> v, ttl |-> ttl, validThrough |-> vt, over |-> over]
DeleteWrite == [op |-> "Delete", value |-> Nil, ttl |-> 0, validThrough |-> 0,
                over |-> FALSE]

\* The item a call recorded in hist left in the storage.
Written(h) == IF h.op = "Set" THEN cacheItem(h.value, h.validThrough) ELSE NoEntry

\* The value of snap when it records no sweep (no storage holds this deadline).
NoSnap == [k \in Keys |-> [found |-> FALSE, value |-> Nil, validThrough |-> 0 - 2]]

\* A caller's locals: the key and item in hand, and as history the interval
\* and clock reading of its Set and the hist of its key when the call began.
Idle == [pc |-> "idle", key |-> "a", item |-> NoEntry, ttl |-> 0, at |-> 0,
         seen |-> NoWrite]

NoRet == [op |-> "None", by |-> "p1", key |-> "a", item |-> NoEntry,
          seen |-> NoWrite, at |-> 0, res |-> Miss, gap |-> FALSE]

\* An item a Get at the instant t is due to return: one whose deadline t has
\* not passed.
Live(item, t) == item.found /\ t <= item.validThrough

\* The value of gap when no Get is under way.
NoGap == [p \in Procs |-> FALSE]

\* The history gap, kept by every step: for a caller inside Get, whether the
\* key has been without a live item in the state a step of the call left or
\* in any state since.
Track ==
    gap' = [p \in Procs |->
              /\ callers'[p].pc = "GetLoaded"
              /\ \/ callers[p].pc = "GetLoaded" /\ gap[p]
                 \/ ~Live(storage'[callers'[p].key], now')]

\* const defaultCleanUpInterval (30 seconds, scaled down).
defaultCleanUpInterval == 2

\* time.NewTicker(d) at the instant t.
NewTicker(d, t) == [period |-> d, next |-> t + d, made |-> d]

\* The constructor after its return: the sweeper goroutine is started.
Built == [pc |-> "Done", options |-> <<>>, given |-> <<>>]

Init ==
    /\ build = Built
    /\ cleanUpTicker = NewTicker(defaultCleanUpInterval, 0)
    /\ storage = [k \in Keys |-> NoEntry]
    /\ now = 0
    /\ tickPending = FALSE
    /\ ctxDone = FALSE
    /\ spc = "Running"
    /\ scanned = {}
    /\ itemsToDelete = <<>>
    /\ callers = [p \in Procs |-> Idle]
    /\ writes = 0
    /\ ret = NoRet
    /\ hist = [k \in Keys |-> NoWrite]
    /\ snap = NoSnap
    /\ gap = NoGap

\* ------------------------------------------------------------- environment

\* The wall clock advances.
ClockAdvance ==
    /\ ret' = NoRet
    /\ now < MaxTime
    /\ now' = now + 1
    /\ snap' = NoSnap
    /\ UNCHANGED <<cfgVars, storage, hist, tickPending, ctxDone, spc, scanned,
                   itemsToDelete, callerVars>>
    /\ Track

\* The ticker sends a tick; the channel holds one, a further tick is dropped.
\* The period is left open here: a tick may come at any instant.
TickerFire ==
    /\ ret' = NoRet
    /\ ~tickPending
    /\ tickPending' = TRUE
    /\ snap' = NoSnap
    /\ UNCHANGED <<cfgVars, storage, hist, now, ctxDone, spc, scanned, itemsToDelete,
                   callerVars>>
    /\ Track

\* The owner of the context cancels it.
Cancel ==
    /\ ret' = NoRet
    /\ ~ctxDone
    /\ ctxDone' = TRUE
    /\ snap' = NoSnap
    /\ UNCHANGED <<cfgVars, storage, hist, now, tickPending, spc, scanned, itemsToDelete,
                   callerVars>>
    /\ Track

\* ------------------------------------------------------------- construction

\* The durations WithCleanUpInterval is called with.
Durations == {0 - 1, 0, 1}

\* The option lists NewInMemoryCache is called with.
OptionLists == UNION {[1 .. n -> Durations] : n \in 0 .. MaxOptions}

\* NewInMemoryCache, lines 30-31: the ticker is made with the default period;
\* no option is applied yet and the sweeper goroutine is not started.
ConfigInit ==
    /\ build \in {[pc |-> "Options", options |-> o, given |-> o] :
                      o \in OptionLists}
    /\ cleanUpTicker = NewTicker(defaultCleanUpInterval, 0)
    /\ storage = [k \in Keys |-> NoEntry]
    /\ now = 0
    /\ tickPending = FALSE
    /\ ctxDone = FALSE
    /\ spc = "NotStarted"
    /\ scanned = {}
    /\ itemsToDelete = <<>>
    /\ callers = [p \in Procs |-> Idle]
    /\ writes = 0
    /\ ret = NoRet
    /\ hist = [k \in Keys |-> NoWrite]
    /\ snap = NoSnap
    /\ gap = NoGap

\* Ticker.Reset(d) at the instant t, for d > 0: the next tick comes one new
\* period from now.
Reset(tk, d, t) == [tk EXCEPT !.period = d, !.next = t + d]

\* NewInMemoryCache, lines 33-35, on one option, the closure of
\* WithCleanUpInterval(d), line 44: Ticker.Reset panics when d is not
\* positive.  A tick already waiting in the channel stays there or is
\* dropped, as the Go release the program is built with has it.
ApplyOption ==
    /\ build.pc = "Options"
    /\ build.options # <<>>
    /\ ret' = NoRet
    /\ snap' = NoSnap
    /\ LET d == Head(build.options)
       IN  IF d <= 0
           THEN /\ build' = [build EXCEPT !.pc = "Panicked"]
                /\ UNCHANGED <<cleanUpTicker, tickPending>>
           ELSE /\ build' = [build EXCEPT !.options = Tail(@)]
                /\ cleanUpTicker' = Reset(cleanUpTicker, d, now)
                /\ tickPending' \in (IF tickPending THEN BOOLEAN ELSE {FALSE})
    /\ UNCHANGED <<storeVars, now, ctxDone, spc, scanned, itemsToDelete,
                   callerVars>>
    /\ Track

\* NewInMemoryCache, lines 37-39: go cache.cleanUpCache(ctx); return cache
StartSweeper ==
    /\ build.pc = "Options"
    /\ build.options = <<>>
    /\ ret' = NoRet
    /\ snap' = NoSnap
    /\ build' = [build EXCEPT !.pc = "Done"]
    /\ spc' = "Running"
    /\ UNCHANGED <<cleanUpTicker, storeVars, envVars, scanned, itemsToDelete,
                   callerVars>>
    /\ Track

\* The ticker sends the tick that is due; it drops it when one is waiting in
\* the channel.  The next tick is due one period later.
TickerFireTimed ==
    /\ build.pc # "Panicked"
    /\ now = cleanUpTicker.next
    /\ ret' = NoRet
    /\ snap' = NoSnap
    /\ tickPending' = TRUE
    /\ cleanUpTicker' =
          [cleanUpTicker EXCEPT !.next = @ + cleanUpTicker.period,
                                !.made = IF tickPending THEN @
                                         ELSE cleanUpTicker.period]
    /\ UNCHANGED <<build, storeVars, now, ctxDone, spc, scanned, itemsToDelete,
                   callerVars>>
    /\ Track

\* The wall clock advances, once the tick that is due is sent.
TimedClockAdvance ==
    /\ build.pc # "Panicked"
    /\ now < cleanUpTicker.next
    /\ ClockAdvance

\* ------------------------------------------------------------------ callers

\* A Store that writes the value of the item and keeps the deadline of the
\* item it replaces.
StoreItemTorn(m, k, item) ==
    [m EXCEPT ![k] = IF m[k].found THEN cacheItem(item.value, m[k].validThrough)
                     ELSE item]

\* sync.Map.Store
StoreItem(m, k, item) == [m EXCEPT ![k] = item]

\* A Delete that removes nothing.
DeleteKeyNoop(m, k) == m

\* A Delete that empties the map.
DeleteKeyClear(m, k) == [x \in DOMAIN m |-> NoEntry]

\* sync.Map.Delete
DeleteKey(m, k) == [m EXCEPT ![k] = NoEntry]

\* A caller is between two calls.
Free(p) == callers[p].pc = "idle"

\* A caller enters Set or Delete.
Write(p) ==
    /\ Free(p)
    /\ writes < MaxWrites
    /\ writes' = writes + 1

\* Get, line 49: c.storage.Load(key)
GetLoad(p, k) ==
    /\ ret' = NoRet
    /\ Free(p)
    /\ callers' = [callers EXCEPT ![p] =
          [Idle EXCEPT !.pc = "GetLoaded", !.key = k, !.item = storage[k],
                       !.seen = hist[k]]]
    /\ snap' = NoSnap
    /\ UNCHANGED <<cfgVars, writes, storeVars, envVars, spc, scanned, itemsToDelete>>
    /\ Track

\* Get without the expiry check of lines 55-57.
GetResultNoExpiry(item, t) ==
    IF ~item.found THEN Miss ELSE Hit(item.value)

\* Get without the found check of lines 50-52.
GetResultNoFoundCheck(item, t) ==
    IF Expired(t, item) THEN Miss ELSE Hit(item.value)

\* Get, lines 50-59: the result from the loaded item and a clock reading.
GetResult(item, t) ==
    IF ~item.found THEN Miss
    ELSE IF Expired(t, item) THEN Miss
    ELSE Hit(item.value)

\* A Get that deletes the item it finds expired.
GetReturnEvict(p) ==
    /\ callers[p].pc = "GetLoaded"
    /\ ret' = [op |-> "Get", by |-> p, key |-> callers[p].key,
               item |-> callers[p].item, seen |-> callers[p].seen, at |-> now,
               res |-> GetResult(callers[p].item, now), gap |-> gap[p]]
    /\ callers' = [callers EXCEPT ![p] = Idle]
    /\ snap' = NoSnap
    /\ storage' = IF callers[p].item.found /\ Expired(now, callers[p].item)
                  THEN DeleteKey(storage, callers[p].key) ELSE storage
    /\ UNCHANGED <<cfgVars, writes, hist, envVars, spc, scanned, itemsToDelete>>
    /\ Track

\* Get, lines 53-59: the clock reading, the comparison and the return.
GetReturn(p) ==
    /\ callers[p].pc = "GetLoaded"
    /\ ret' = [op |-> "Get", by |-> p, key |-> callers[p].key,
               item |-> callers[p].item, seen |-> callers[p].seen, at |-> now,
               res |-> GetResult(callers[p].item, now), gap |-> gap[p]]
    /\ callers' = [callers EXCEPT ![p] = Idle]
    /\ snap' = NoSnap
    /\ UNCHANGED <<cfgVars, writes, storeVars, envVars, spc, scanned, itemsToDelete>>
    /\ Track

\* A Set that takes a negative interval for zero.
NewItemClamped(v, t, ttl) == cacheItem(v, t + (IF ttl < 0 THEN 0 ELSE ttl))

\* Set, line 63: the item, from a clock reading and the interval.
NewItem(v, t, ttl) == cacheItem(v, t + ttl)

SetBegin(p, k, v, ttl) ==
    /\ ret' = NoRet
    /\ Write(p)
    /\ callers' = [callers EXCEPT ![p] =
          [Idle EXCEPT !.pc = "SetTimed", !.key = k, !.item = NewItem(v, now, ttl),
                       !.ttl = ttl, !.at = now, !.seen = hist[k]]]
    /\ snap' = NoSnap
    /\ UNCHANGED <<cfgVars, storeVars, envVars, spc, scanned, itemsToDelete>>
    /\ Track

\* Set, line 64: c.storage.Store(key, item)
SetStore(p) ==
    /\ ret' = NoRet
    /\ callers[p].pc = "SetTimed"
    /\ storage' = StoreItem(storage, callers[p].key, callers[p].item)
    /\ hist' = [hist EXCEPT ![callers[p].key] =
          SetWrite(callers[p].item.value, callers[p].ttl,
                   callers[p].item.validThrough, storage[callers[p].key].found)]
    /\ snap' = NoSnap
    /\ callers' = [callers EXCEPT ![p] = Idle]
    /\ UNCHANGED <<cfgVars, writes, envVars, spc, scanned, itemsToDelete>>
    /\ Track

\* Delete, line 68: c.storage.Delete(key)
Delete(p, k) ==
    /\ ret' = NoRet
    /\ Write(p)
    /\ storage' = DeleteKey(storage, k)
    /\ hist' = [hist EXCEPT ![k] = DeleteWrite]
    /\ snap' = NoSnap
    /\ callers' = [callers EXCEPT ![p] = Idle]
    /\ UNCHANGED <<cfgVars, envVars, spc, scanned, itemsToDelete>>
    /\ Track

\* ------------------------------------------------------------------ sweeper

\* A select whose <-ctx.Done() case goes round the loop instead of returning.
SweeperStopContinue ==
    /\ spc = "Running"
    /\ ctxDone
    /\ ret' = NoRet
    /\ UNCHANGED <<cfgVars, storeVars, envVars, spc, scanned, itemsToDelete, snap,
                   callerVars>>
    /\ Track

\* cleanUpCache, line 74: the select takes <-ctx.Done() and returns.
SweeperStop ==
    /\ ret' = NoRet
    /\ spc = "Running"
    /\ ctxDone
    /\ spc' = "Stopped"
    /\ UNCHANGED <<cfgVars, storeVars, envVars, scanned, itemsToDelete, snap, callerVars>>
    /\ Track

\* A select that still takes a tick after the goroutine has returned.
SweeperTickAfterStop ==
    /\ ret' = NoRet
    /\ spc \in {"Running", "Stopped"}
    /\ tickPending
    /\ tickPending' = FALSE
    /\ spc' = "Scanning"
    /\ scanned' = {}
    /\ itemsToDelete' = <<>>
    /\ snap' = storage
    /\ UNCHANGED <<cfgVars, storeVars, now, ctxDone, callerVars>>
    /\ Track

\* cleanUpCache, line 76: the select takes a tick; getCacheItemsToDelete
\* starts with an empty slice.
SweeperTick ==
    /\ ret' = NoRet
    /\ spc = "Running"
    /\ tickPending
    /\ tickPending' = FALSE
    /\ spc' = "Scanning"
    /\ scanned' = {}
    /\ itemsToDelete' = <<>>
    /\ snap' = storage
    /\ UNCHANGED <<cfgVars, storeVars, now, ctxDone, callerVars>>
    /\ Track

\* A callback that collects no key.
CollectNone(items, k, item, t) == items

\* getCacheItemsToDelete, lines 88-91: the callback on one item, with its own
\* clock reading.
Collect(items, k, item, t) ==
    IF Expired(t, item) THEN Append(items, k) ELSE items

\* Range passes a key, in any order and each key once; it calls the callback
\* when the key holds an item at that moment.  After the last key Range
\* returns and line 78 starts the delete loop, which ends at once on an empty
\* slice.
ScanVisit(k) ==
    /\ spc = "Scanning"
    /\ ret' = NoRet
    /\ k \notin scanned
    /\ LET items == IF storage[k].found
                    THEN Collect(itemsToDelete, k, storage[k], now)
                    ELSE itemsToDelete
           last == scanned \cup {k} = Keys
       IN  /\ itemsToDelete' = items
           /\ scanned' = IF last THEN {} ELSE scanned \cup {k}
           /\ spc' = IF ~last THEN "Scanning"
                     ELSE IF items = <<>> THEN "Running" ELSE "Purging"
    /\ UNCHANGED <<cfgVars, storeVars, envVars, snap, callerVars>>
    /\ Track

\* cleanUpCache, lines 78-80: one iteration of the delete loop; after the last
\* one the for loop is back at the select.
PurgeStep ==
    /\ spc = "Purging"
    /\ ret' = NoRet
    /\ storage' = DeleteKey(storage, Head(itemsToDelete))
    /\ itemsToDelete' = Tail(itemsToDelete)
    /\ spc' = IF Tail(itemsToDelete) = <<>> THEN "Running" ELSE "Purging"
    /\ UNCHANGED <<cfgVars, hist, envVars, scanned, snap, callerVars>>
    /\ Track

\* -------------------------------------------------------------- specification

CallerStep(P, V, T) ==
    \E p \in P :
        \/ \E k \in Keys : GetLoad(p, k)
        \/ GetReturn(p)
        \/ \E k \in Keys, v \in V, ttl \in T : SetBegin(p, k, v, ttl)
        \/ SetStore(p)
        \/ \E k \in Keys : Delete(p, k)

SweeperStep ==
    \/ SweeperStop
    \/ SweeperTick
    \/ \E k \in Keys : ScanVisit(k)
    \/ PurgeStep

Next ==
    \/ ClockAdvance
    \/ TickerFire
    \/ Cancel
    \/ CallerStep(Solo, SoloValues, TTLs)
    \/ SweeperStep

Spec == Init /\ [][Next]_vars

\* The sweeper goroutine is scheduled: a step of Range or of the delete loop
\* that can be taken is taken.  At the select with ctx.Done() closed, the
\* runtime picks among the ready cases at random, so a sweeper that comes back
\* to the select again and again takes <-ctx.Done() in the end.
Fairness ==
    /\ WF_vars(\E k \in Keys : ScanVisit(k))
    /\ WF_vars(PurgeStep)
    /\ SF_vars(SweeperStop)

\* The sweeper beside a caller whose items expire at the next clock reading.
ShortTTLs == {0}

NextShort ==
    \/ ClockAdvance
    \/ TickerFire
    \/ Cancel
    \/ CallerStep(Solo, SoloValues, ShortTTLs)
    \/ SweeperStep

FairSpec == Init /\ [][NextShort]_vars /\ Fairness

\* The ticker keeps sending ticks, and a sweeper at the select with a tick
\* waiting and the context not cancelled takes the tick, the one ready case.
ReclaimFairness ==
    /\ Fairness
    /\ WF_vars(TickerFire)
    /\ WF_vars(SweeperTick)

ReclaimSpec == Init /\ [][NextShort]_vars /\ ReclaimFairness

\* Two callers and the clock; the ticker never fires.
PairTTLs == {1, MaxDuration}

NextCallers ==
    \/ ClockAdvance
    \/ CallerStep(Procs, Values, PairTTLs)

CallerSpec == Init /\ [][NextCallers]_vars

\* The sweeper beside a caller that passes negative intervals, down to the
\* smallest one.
NegativeTTLs == {MinDuration, 0 - 1}

NextNegative ==
    \/ ClockAdvance
    \/ TickerFire
    \/ Cancel
    \/ CallerStep(Solo, SoloValues, NegativeTTLs)
    \/ SweeperStep

NegativeSpec == Init /\ [][NextNegative]_vars

\* The constructor with its options, the timed ticker, the sweeper, and a
\* caller that uses the cache once the constructor has returned it.
NextConfig ==
    \/ ApplyOption
    \/ StartSweeper
    \/ TickerFireTimed
    \/ TimedClockAdvance
    \/ Cancel
    \/ build.pc = "Done" /\ CallerStep(Solo, SoloValues, ShortTTLs)
    \/ SweeperStep

ConfigSpec == ConfigInit /\ [][NextConfig]_vars

\* ---------------------------------------------------------------- properties

\* C1. Set-then-Get: a Get that loads the item a Set with ttl > 0 stored (no
\* Set, Delete or sweep of the key in between) and reads the clock no later
\* than that Set's reading plus ttl returns (v, true).
C1_SetThenGet ==
    (/\ ret.op = "Get"
     /\ ret.seen.op = "Set"
     /\ ret.seen.ttl > 0
     /\ ret.item = Written(ret.seen)
     /\ ret.at <= ret.seen.validThrough)
    => ret.res = Hit(ret.seen.value)

\* C2. Immediate expiry: a Get of a key whose last Set had ttl = 0 returns
\* (nil, false), at every clock reading from that Set's on.
C2_ImmediateExpiry ==
    (ret.op = "Get" /\ ret.seen.op = "Set" /\ ret.seen.ttl = 0) => ret.res = Miss

\* C3. Lazy expiry: a Get whose clock reading is past the deadline of the item
\* it loaded returns (nil, false), and a Get returns (v, true) only for a
\* loaded item of value v whose deadline its clock reading has not passed;
\* this in every state of the sweeper.
C3_LazyExpiry ==
    ret.op = "Get" =>
        /\ (ret.item.found /\ ret.at > ret.item.validThrough) => ret.res = Miss
        /\ ret.res.found =>
              /\ ret.item.found
              /\ ret.at <= ret.item.validThrough
              /\ ret.res = Hit(ret.item.value)

\* A Get has just missed on an expired item that is still in the storage,
\* after the sweeper stopped.
C3_Witness ==
    /\ ret.op = "Get"
    /\ ret.item.found
    /\ ret.at > ret.item.validThrough
    /\ storage[ret.key] = ret.item
    /\ spc = "Stopped"
    /\ ret.res = Miss

\* C4. Delete clears: a Get of a key whose last Set or Delete was a Delete
\* returns (nil, false); a Delete of a key that holds no item leaves the
\* storage as it was.
C4_DeleteClears ==
    /\ [](ret.op = "Get" /\ ret.seen.op = "Delete" => ret.res = Miss)
    /\ [][storage' # storage =>
            \A p \in Procs, k \in Keys : ~(~storage[k].found /\ Delete(p, k))]_vars

\* A Get has just returned for a deleted key while the other key holds an
\* item.
C4_Witness ==
    /\ ret.op = "Get"
    /\ ret.seen.op = "Delete"
    /\ \E k \in Keys \ {ret.key} : storage[k].found
    /\ ret.res = Miss

\* C5. Missing key: a Get that finds no item under its key returns
\* (nil, false), whether the key was never set, was deleted or was swept; and
\* every result of Get is a value with a boolean.
C5_MissingKey ==
    ret.op = "Get" =>
        /\ ~ret.item.found => ret.res = Miss
        /\ ret.res \in [value : Values \cup {Nil}, found : BOOLEAN]

\* A Get has just missed on a key whose item the sweeper removed.
C5_Witness ==
    /\ ret.op = "Get"
    /\ ~ret.item.found
    /\ ret.seen.op = "Set"
    /\ ret.res = Miss

\* A Get that loads, within its ttl, the item of a Set that replaced an item
\* returns that Set's value.
C6_GetAfterOverwrite ==
    (/\ ret.op = "Get"
     /\ ret.seen.op = "Set"
     /\ ret.seen.over
     /\ ret.item = Written(ret.seen)
     /\ ret.at <= ret.seen.validThrough)
    => ret.res = Hit(ret.seen.value)

\* The Store of a Set on a key that holds an item leaves under the key the
\* item with the Set's value and the deadline its clock reading plus its ttl,
\* and leaves the other keys alone.
C6_StoreReplaces ==
    \A p \in Procs :
        (SetStore(p) /\ storage[callers[p].key].found) =>
            /\ storage'[callers[p].key] =
                  cacheItem(callers[p].item.value, callers[p].at + callers[p].ttl)
            /\ \A k \in Keys \ {callers[p].key} : storage'[k] = storage[k]

\* A step that changes the deadline held under a key is the Store of a Set on
\* that key.
C6_OnlySetChangesDeadline ==
    \A k \in Keys :
        (/\ storage[k].found
         /\ storage'[k].found
         /\ storage'[k].validThrough # storage[k].validThrough)
        => \E p \in Procs : SetStore(p) /\ callers[p].key = k

\* C6. Overwrite: the Store of a Set on a key that holds an item leaves under
\* the key exactly the new item, with the deadline the Set's clock reading plus
\* its ttl; a Get that loads that item within the ttl returns (v2, true); and
\* only the Store of a Set changes the deadline under a key.
C6_Overwrite ==
    /\ []C6_GetAfterOverwrite
    /\ [][C6_StoreReplaces /\ C6_OnlySetChangesDeadline]_vars

\* C7. Sweep correctness: after a sweep that ran at one clock reading t with
\* no other step in between, the storage holds exactly the items it held
\* before whose deadline is t or later, unchanged, and no other key.
C7_SweepCorrect ==
    (spc = "Running" /\ snap # NoSnap) =>
        \A k \in Keys :
            storage[k] = IF snap[k].found /\ snap[k].validThrough >= now
                         THEN snap[k] ELSE NoEntry

C9_PerCallerView ==
    ret.op = "Get" =>
        /\ (/\ ret.seen.op = "Set"
            /\ ret.seen.ttl > 0
            /\ Fits(ret.seen.validThrough)
            /\ ret.at <= ret.seen.validThrough)
           => ret.res = Hit(ret.seen.value)
        /\ ret.seen.op = "Delete" => ret.res = Miss

\* C10. Cancellation liveness: once the context is cancelled the sweeper
\* reaches Stopped.
C10_CancelStops == ctxDone ~> (spc = "Stopped")

\* The sweeper has stopped after a cancellation, with a tick waiting.
C10_Witness == ctxDone /\ spc = "Stopped" /\ tickPending

\* C11. Stopped is terminal: once the sweeper has returned it stays returned,
\* starts no scan and builds no slice; an item in the storage changes or goes
\* only by the Store of a caller's Set or a caller's Delete on its key; and a
\* Get past the deadline of the item it loaded still returns (nil, false).
C11_StoppedTerminal ==
    /\ [][spc = "Stopped" =>
            /\ spc' = "Stopped"
            /\ scanned' = scanned
            /\ itemsToDelete' = itemsToDelete
            /\ \A k \in Keys :
                  storage'[k] # storage[k] =>
                      \E p \in Procs :
                          \/ SetStore(p) /\ callers[p].key = k
                          \/ Delete(p, k)]_vars
    /\ []((/\ spc = "Stopped"
           /\ ret.op = "Get"
           /\ ret.item.found
           /\ ret.at > ret.item.validThrough) => ret.res = Miss)

\* The sweeper has stopped with a tick waiting; the storage holds an expired
\* item and a live one, and a Get of the expired one has just missed.
C11_Witness ==
    /\ spc = "Stopped"
    /\ tickPending
    /\ ret.op = "Get"
    /\ ret.res = Miss
    /\ storage[ret.key].found
    /\ now > storage[ret.key].validThrough
    /\ \E k \in Keys \ {ret.key} :
          storage[k].found /\ now <= storage[k].validThrough

\* C12. Negative ttl: the Store of a Set with ttl < 0 puts under the key the
\* item with the Set's value and the deadline its clock reading plus ttl, and
\* a Get of a key whose last Set or Delete was such a Set returns (nil, false).
C12_NegativeTTL ==
    /\ []((ret.op = "Get" /\ ret.seen.op = "Set" /\ ret.seen.ttl < 0)
           => ret.res = Miss)
    /\ [][\A p \in Procs :
            (SetStore(p) /\ callers[p].ttl < 0) =>
                storage'[callers[p].key] =
                    cacheItem(callers[p].item.value,
                              callers[p].at + callers[p].ttl)]_vars

\* A Get at the clock reading of a Set with a negative ttl has just missed on
\* the item of that Set, which is still in the storage.
C12_Witness ==
    /\ ret.op = "Get"
    /\ ret.seen.op = "Set"
    /\ ret.seen.ttl < 0
    /\ ret.at = ret.seen.validThrough - ret.seen.ttl
    /\ ret.item = Written(ret.seen)
    /\ storage[ret.key] = ret.item
    /\ ret.res = Miss

\* C13. Configuration: the constructor returns for every list of options;
\* once it has returned, the period of the ticker is the default when no
\* option was given and the duration of the last option otherwise; and every
\* tick the sweeper takes was produced under that period.
C13_Configuration ==
    /\ [](build.pc # "Panicked")
    /\ [](build.pc = "Done" =>
            cleanUpTicker.period =
                IF build.given = <<>> THEN defaultCleanUpInterval
                ELSE build.given[Len(build.given)])
    /\ [][SweeperTick => cleanUpTicker.made = cleanUpTicker.period]_vars

\* C14. The sweeper removes only expired items: the item an iteration of the
\* delete loop removes, when its deadline is one UnixNano represents, has a
\* deadline the clock has passed.
C14_PurgeOnlyExpired ==
    [][PurgeStep =>
          LET item == storage[Head(itemsToDelete)]
          IN  (item.found /\ Fits(item.validThrough)) => now > item.validThrough]_vars

\* C15. Cancellation stops sweeping: once the context is cancelled the
\* sweeper takes no tick (starts no scan) and runs no iteration of the delete
\* loop, in whichever state the cancellation found it.
C15_NoSweepAfterCancel ==
    [][ctxDone => ~(SweeperTick \/ PurgeStep)]_vars

\* C16. Reclamation liveness: with ticks that keep coming, a key that holds
\* an item whose deadline the clock has passed comes to hold none, unless a
\* caller's Set puts a live item under it or the context is cancelled.
C16_Reclaimed ==
    \A k \in Keys :
        (storage[k].found /\ now > storage[k].validThrough)
            ~> \/ ~storage[k].found
               \/ now <= storage[k].validThrough
               \/ ctxDone

\* A sweep has just ended, with the context not cancelled, that removed an
\* expired item a caller had set and not deleted.
C16_Witness ==
    /\ spc = "Running"
    /\ ~ctxDone
    /\ \E k \in Keys :
          /\ snap[k].found
          /\ now > snap[k].validThrough
          /\ hist[k].op = "Set"
          /\ ~storage[k].found

\* C17. ttl = 0 and the sweeper: a sweep that began with the item of a
\* Set(k, v, 0) under k, and ran with no other step in between, has removed
\* that item when it ends, at whatever clock reading from the Set's on it ran.
C17_ZeroTTLSwept ==
    (spc = "Running" /\ snap # NoSnap) =>
        \A k \in Keys :
            (/\ hist[k].op = "Set"
             /\ hist[k].ttl = 0
             /\ snap[k] = Written(hist[k]))
            => ~storage[k].found

\* C18. Get is read-only: a step that changes the storage is no step of a
\* Get, whatever the Get returns; and the item under a key changes or goes
\* only by the Store of a Set on the key, a Delete of the key or the sweeper's
\* delete of the key.
C18_GetReadOnly ==
    [][storage' # storage =>
          /\ \A k \in Keys :
                storage'[k] # storage[k] =>
                    \/ PurgeStep /\ Head(itemsToDelete) = k
                    \/ \E p \in Procs : callers[p].key = k /\ SetStore(p)
                    \/ \E p \in Procs : Delete(p, k)
          /\ \A p \in Procs :
                ~(GetReturn(p) \/ \E k \in Keys : GetLoad(p, k))]_vars

\* A Get has just missed on an expired item while the sweeper is in Range;
\* the item is still in the storage as the Get loaded it.
C18_Witness ==
    /\ ret.op = "Get"
    /\ ret.item.found
    /\ ret.at > ret.item.validThrough
    /\ ret.res = Miss
    /\ storage[ret.key] = ret.item
    /\ spc = "Scanning"

\* C19. Key isolation: the Store of a Set on k and a Delete of k leave the
\* item of every other key as it was (the first step of a Set changes no
\* item at all), and the storage holds under each key one item or none.
C19_KeyIsolation ==
    /\ [](storage \in [Keys -> {NoEntry} \cup
                        [found : {TRUE}, value : Values,
                         validThrough : MinDuration .. MaxTime + MaxDuration]])
    /\ [][storage' # storage =>
            \A p \in Procs :
                /\ SetStore(p) =>
                      \A k \in Keys \ {callers[p].key} : storage'[k] = storage[k]
                /\ \A k \in Keys :
                      /\ Delete(p, k) =>
                            \A j \in Keys \ {k} : storage'[j] = storage[j]
                      /\ ~\E v \in Values, ttl \in TTLs :
                              SetBegin(p, k, v, ttl)]_vars

\* Both keys hold items, of different values and deadlines, each as its own
\* Set stored it: the later Store left the item of the other key alone.
C19_Witness ==
    /\ storage["a"].found
    /\ storage["b"].found
    /\ storage["a"].value # storage["b"].value
    /\ storage["a"].validThrough # storage["b"].validThrough
    /\ \A k \in Keys : storage[k] = Written(hist[k])
    /\ writes = MaxWrites

\* C20. A miss is justified: a Get that returns (nil, false), having loaded
\* nothing or an item whose deadline UnixNano represents, had its key without
\* a live item (no item, or one whose deadline the clock had passed) at some
\* instant between its load and its return.
C20_MissJustified ==
    (/\ ret.op = "Get"
     /\ ret.res = Miss
     /\ ret.item.found => Fits(ret.item.validThrough))
    => ret.gap

=============================================================================
